---- MODULE Spec2Model ----
(***************************************************************************)
(* Model of src/poll.py: one run of main().  The run is a single           *)
(* synchronous thread; its only waiting points are the three blocking      *)
(* HTTP calls, so the model has one action per way a call can end, and     *)
(* each action carries main() on to the next blocking call or to exit.     *)
(***************************************************************************)
EXTENDS Integers, Sequences, FiniteSets, TLC

\* ------------------------------------------------------------------ bounds
MaxCols  == 2   \* header cells of a many-row response
MaxVals  == 1   \* value cells per row of a many-row response
MaxRows  == 2   \* row nodes of a many-row response
WideCols == 3   \* header cells of a one-row response
WideVals == 3   \* value cells of the row of a one-row response

\* --------------------------------------------------------- program constants
ExcerptLen == 300   \* resp.text[:300]

\* ------------------------------------------------------------ value encoding
\* Python's None where a string is expected (d.text of an empty element,
\* dict.get without a default).  No text of a response equals it.
None == "<None>"

\* What find() gives for a missing node; a found node is <<its data list>>.
Absent == <<>>

Min(a, b) == IF a <= b THEN a ELSE b

SeqsUpTo(S, n) == UNION {[1..k -> S] : k \in 0..n}

Range(s) == {s[i] : i \in DOMAIN s}

\* ------------------------------------------------------------------- inputs
StatusCodes == {200, 201, 500}

HeaderTexts == {None, "State", "Username"}
ValueTexts  == {None, "Logged Out", "Ready"}

ValueNodes(n) == {<<v>> : v \in SeqsUpTo(ValueTexts, n)}
HeaderNodes(n) == {<<h>> : h \in SeqsUpTo(HeaderTexts, n)}

\* A response body that ET.fromstring rejects.
Unparseable == [ok |-> FALSE, columns |-> Absent, rows |-> <<>>]

\* Parsed responses with up to MaxRows row nodes, each with or without a
\* values child, and with or without a columns/values node.
NarrowDocs ==
    [ok : {TRUE},
     columns : {Absent} \cup HeaderNodes(MaxCols),
     rows : SeqsUpTo({Absent} \cup ValueNodes(MaxVals), MaxRows)]

\* Parsed responses with one row and longer header and value lists.
WideDocs ==
    [ok : {TRUE},
     columns : HeaderNodes(WideCols),
     rows : [1..1 -> ValueNodes(WideVals)]]

Bodies == {Unparseable} \cup NarrowDocs \cup WideDocs

\* Lengths of the Snapshot Store's response text.
BodyLens == {0, ExcerptLen + 1}

\* ------------------------------------------------------------ pure functions
\* d.text or ""
Text(d) == IF d = None THEN "" ELSE d

\* [d.text or "" for d in node.findall("data")]
DataTexts(list) == [i \in 1..Len(list) |-> Text(list[i])]

\* zip(columns, values): stops at the shorter of the two
Zip(cols, vals) == [i \in 1..Min(Len(cols), Len(vals)) |-> <<cols[i], vals[i]>>]

\* dict(pairs): a later pair with the same key replaces an earlier one
Dict(pairs) ==
    [k \in {pairs[i][1] : i \in DOMAIN pairs} |->
        LET last == CHOOSE i \in DOMAIN pairs :
                        /\ pairs[i][1] = k
                        /\ \A j \in DOMAIN pairs : j > i => pairs[j][1] # k
        IN  pairs[last][2]]

\* agent.get(key, default)
Get(agent, key, default) == IF key \in DOMAIN agent THEN agent[key] ELSE default

\* agent = dict(zip(columns, values))
AgentOf(columns, values) == Dict(Zip(columns, values))

IsLoggedOut_Typo(agent) == Get(agent, "State", None) = "Logged out"

IsLoggedOut_OrMissing(agent) == Get(agent, "State", "Logged Out") = "Logged Out"

\* agent.get("State") == "Logged Out"
IsLoggedOut(agent) == Get(agent, "State", None) = "Logged Out"

Field_NoDefault(agent, key) == Get(agent, key, None)

\* agent.get(key, "")
Field(agent, key) == Get(agent, key, "")

\* datetime.now(timezone.utc).isoformat() at instant t
IsoFormat(t) == [utc |-> t]

Stamp_Now(ts, now) == IsoFormat(now)

\* the "snapshot_ts" entry of a record built at instant now
Stamp(ts, now) == ts

\* the dict appended to rows
MakeRecord(agent, ts, now) ==
    [snapshot_ts        |-> Stamp(ts, now),
     username           |-> Field(agent, "Username"),
     full_name          |-> Field(agent, "Full Name"),
     state              |-> Field(agent, "State"),
     reason_code        |-> Field(agent, "Reason Code"),
     state_since        |-> Field(agent, "State Since"),
     state_duration     |-> Field(agent, "State Duration"),
     campaign_name      |-> Field(agent, "Campaign Name"),
     call_type          |-> Field(agent, "Call Type"),
     media_availability |-> Field(agent, "Media Availability")]

NoValues_Never(node) == FALSE

\* values_node is None
NoValues(node) == node = Absent

\* values_node.findall("data") texts; nothing to read under a missing node
ValuesOf(node) == IF node = Absent THEN <<>> ELSE DataTexts(node[1])

\* The for-loop over root.findall(".//rows"), from row i on.  acc.rows is the
\* list being built; acc.src records, for each record, the index of the row
\* node it was built from.
RECURSIVE Loop(_, _, _, _, _, _)
Loop(columns, rowNodes, ts, now, i, acc) ==
    IF i > Len(rowNodes) THEN acc
    ELSE IF NoValues(rowNodes[i])
         THEN Loop(columns, rowNodes, ts, now, i + 1, acc)
    ELSE LET agent == AgentOf(columns, ValuesOf(rowNodes[i]))
         IN  IF IsLoggedOut(agent)
             THEN Loop(columns, rowNodes, ts, now, i + 1, acc)
             ELSE Loop(columns, rowNodes, ts, now, i + 1,
                       [rows |-> Append(acc.rows, MakeRecord(agent, ts, now)),
                        src  |-> Append(acc.src, i)])

Transform(columns, rowNodes, ts, now) ==
    Loop(columns, rowNodes, ts, now, 1, [rows |-> <<>>, src |-> <<>>])

Ok200_Or201(st) == st \in {200, 201}

Ok200_Always(st) == TRUE

\* not (resp.status_code != 200)
Ok200(st) == st = 200

StoreOk_Only200(st) == st = 200

\* not (resp.status_code not in (200, 201))
StoreOk(st) == st \in {200, 201}

IsEmpty_Never(list) == FALSE

\* not rows
IsEmpty(list) == list = <<>>

Emit_Twice(o, line) == Append(Append(o, line), line)

\* print(line)
Emit(o, line) == Append(o, line)

\* the printed lines
FailSession(st)  == [prefix |-> "FAIL: ", what |-> "Session setup returned",
                     code |-> st, n |-> 0, excerpt |-> 0, elapsed |-> 0]
FailStats(st)    == [prefix |-> "FAIL: ", what |-> "getStatistics returned",
                     code |-> st, n |-> 0, excerpt |-> 0, elapsed |-> 0]
FailColumns      == [prefix |-> "FAIL: ", what |-> "No columns in response",
                     code |-> 0, n |-> 0, excerpt |-> 0, elapsed |-> 0]
OkZero           == [prefix |-> "OK: ", what |-> "0 active agents (all logged out)",
                     code |-> 0, n |-> 0, excerpt |-> 0, elapsed |-> 0]
FailStore(st, len) == [prefix |-> "FAIL: ", what |-> "Supabase returned",
                     code |-> st, n |-> 0, excerpt |-> Min(len, ExcerptLen),
                     elapsed |-> 0]
OkWritten(n, el) == [prefix |-> "OK: ", what |-> "agents written",
                     code |-> 0, n |-> n, excerpt |-> 0, elapsed |-> el]

\* -------------------------------------------------------------------- state
VARIABLES
    pc,          \* where main() is: "start", "await_session", "await_stats",
                 \* "await_store", "done"
    clock,       \* the wall clock
    start,       \* start = time.time()
    snapshot_ts, \* snapshot_ts = datetime.now(timezone.utc).isoformat()
    status,      \* status code each call returned (0: no response)
    doc,         \* body of the getStatistics response
    rows,        \* the record list
    src,         \* for each record, the index of its row node
    requests,    \* outbound requests issued so far, with their payload
    out,         \* lines printed on stdout
    exitCode,    \* process exit status (-1 while running)
    fault        \* an exception left main() uncaught

vars == <<pc, clock, start, snapshot_ts, status, doc, rows, src, requests,
          out, exitCode, fault>>

\* an outbound request issued at instant at
Request(to, at, payload) == [to |-> to, at |-> at, payload |-> payload]

Init ==
    /\ pc = "start"
    /\ clock = 0
    /\ start = -1
    /\ snapshot_ts = IsoFormat(-1)
    /\ status = [session |-> 0, stats |-> 0, store |-> 0]
    /\ doc = Unparseable
    /\ rows = <<>>
    /\ src = <<>>
    /\ requests = <<>>
    /\ out = <<>>
    /\ exitCode = -1
    /\ fault = FALSE

\* sys.exit(code) after print(line)
Exit(line, code) ==
    /\ out' = Emit(out, line)
    /\ exitCode' = code
    /\ pc' = "done"

\* main() up to the first blocking call
Start ==
    /\ pc = "start"
    /\ start' = clock
    /\ snapshot_ts' = IsoFormat(clock)
    /\ requests' = Append(requests, Request("session", clock, <<>>))
    /\ pc' = "await_session"
    /\ UNCHANGED <<clock, status, doc, rows, src, out, exitCode, fault>>

\* setSessionParameters answered with status st
SessionReturn(st) ==
    /\ pc = "await_session"
    /\ clock' = clock + 1
    /\ status' = [status EXCEPT !.session = st]
    /\ IF ~Ok200(st)
       THEN /\ Exit(FailSession(st), 1)
            /\ UNCHANGED requests
       ELSE /\ requests' = Append(requests,
                                  Request("stats", clock', <<>>))
            /\ pc' = "await_stats"
            /\ UNCHANGED <<out, exitCode>>
    /\ UNCHANGED <<start, snapshot_ts, doc, rows, src, fault>>

\* getStatistics answered with a status other than 200
StatsRejected(st) ==
    /\ pc = "await_stats"
    /\ ~Ok200(st)
    /\ clock' = clock + 1
    /\ status' = [status EXCEPT !.stats = st]
    /\ Exit(FailStats(st), 1)
    /\ UNCHANGED <<start, snapshot_ts, doc, rows, src, requests, fault>>

\* getStatistics answered 200 with a body: parse, transform, and go on to
\* the bulk insert or to exit
StatsReturn(st, body) ==
    /\ clock' = clock + 1
    /\ status' = [status EXCEPT !.stats = st]
    /\ doc' = body
    /\ IF ~body.ok
       THEN \* ET.fromstring raises ParseError
            /\ fault' = TRUE
            /\ exitCode' = 1
            /\ pc' = "done"
            /\ UNCHANGED <<rows, src, requests, out>>
       ELSE IF body.columns = Absent
       THEN /\ Exit(FailColumns, 1)
            /\ UNCHANGED <<rows, src, requests, fault>>
       ELSE LET columns == DataTexts(body.columns[1])
                t == Transform(columns, body.rows, snapshot_ts, clock')
            IN  /\ rows' = t.rows
                /\ src' = t.src
                /\ IF IsEmpty(t.rows)
                   THEN /\ Exit(OkZero, 0)
                        /\ UNCHANGED requests
                   ELSE /\ requests' = Append(requests,
                               Request("store", clock', t.rows))
                        /\ pc' = "await_store"
                        /\ UNCHANGED <<out, exitCode>>
                /\ UNCHANGED fault
    /\ UNCHANGED <<start, snapshot_ts>>

\* the Snapshot Store answered with status st and a body of len characters
StoreReturn(st, len) ==
    /\ pc = "await_store"
    /\ clock' = clock + 1
    /\ status' = [status EXCEPT !.store = st]
    /\ IF ~StoreOk(st)
       THEN Exit(FailStore(st, len), 1)
       ELSE \* main() returns; the interpreter exits with status 0
            Exit(OkWritten(Len(rows), clock' - start), 0)
    /\ UNCHANGED <<start, snapshot_ts, doc, rows, src, requests, fault>>

\* requests.post raises (timeout, DNS, connection reset): nothing catches
\* it, the interpreter prints a traceback on stderr and exits with status 1
TransportFault ==
    /\ pc \in {"await_session", "await_stats", "await_store"}
    /\ clock' = clock + 1
    /\ fault' = TRUE
    /\ exitCode' = 1
    /\ pc' = "done"
    /\ UNCHANGED <<start, snapshot_ts, status, doc, rows, src, requests, out>>

Next ==
    \/ Start
    \/ \E st \in StatusCodes : SessionReturn(st)
    \/ \E st \in StatusCodes : StatsRejected(st)
    \/ /\ pc = "await_stats"
       /\ \E st \in StatusCodes :
            /\ Ok200(st)
            /\ \E body \in Bodies : StatsReturn(st, body)
    \/ \E st \in StatusCodes, len \in BodyLens : StoreReturn(st, len)
    \/ TransportFault

Spec == Init /\ [][Next]_vars

\* --------------------------------------------------------- reading the state
Targets == [r \in DOMAIN requests |-> requests[r].to]

IsPrefix(s, t) == Len(s) <= Len(t) /\ \A k \in DOMAIN s : s[k] = t[k]

Payloads == {requests[r].payload : r \in {q \in DOMAIN requests : requests[q].to = "store"}}

\* main() got past the column-definition lookup and ran the row loop
Transformed == status.stats = 200 /\ doc.ok /\ doc.columns # Absent

Header == DataTexts(doc.columns[1])

HasValueList(i) == doc.rows[i] # Absent

RowValues(i) == DataTexts(doc.rows[i][1])

\* header positions named name that have a value in row i
Positions(i, name) ==
    {p \in 1..Len(Header) : Header[p] = name /\ p <= Len(RowValues(i))}

Last(P) == CHOOSE p \in P : \A q \in P : q <= p

\* row i has a State field
StatePresent(i) == HasValueList(i) /\ Positions(i, "State") # {}

\* row i has a State field and it equals v (where the header names State
\* twice, the later column is the one the field mapping keeps)
RowStateIs(i, v) ==
    StatePresent(i) /\ RowValues(i)[Last(Positions(i, "State"))] = v

RemoveAt(s, i) == [k \in 1..(Len(s) - 1) |-> IF k < i THEN s[k] ELSE s[k + 1]]

Keys ==
    {"snapshot_ts", "username", "full_name", "state", "reason_code",
     "state_since", "state_duration", "campaign_name", "call_type",
     "media_availability"}

\* record key -> column name
ColumnOf ==
    [username |-> "Username", full_name |-> "Full Name", state |-> "State",
     reason_code |-> "Reason Code", state_since |-> "State Since",
     state_duration |-> "State Duration", campaign_name |-> "Campaign Name",
     call_type |-> "Call Type", media_availability |-> "Media Availability"]

\* ------------------------------------------------------------------- claims

\* C1: a status other than 200 from the session-configuration call or from
\* the statistics call ends the run with exit code 1 and one FAIL line that
\* names that status, and no request is issued after the rejected one.
C1_FatalOnBadStatus ==
    /\ status.session \notin {0, 200} =>
          /\ pc = "done" /\ exitCode = 1
          /\ Len(out) = 1 /\ out[1].prefix = "FAIL: "
          /\ out[1].code = status.session
          /\ Targets = <<"session">>
    /\ status.stats \notin {0, 200} =>
          /\ pc = "done" /\ exitCode = 1
          /\ Len(out) = 1 /\ out[1].prefix = "FAIL: "
          /\ out[1].code = status.stats
          /\ Targets = <<"session", "stats">>

C1_Witness ==
    /\ status.session = 200 /\ status.stats = 500
    /\ exitCode = 1 /\ out = <<FailStats(500)>>

\* C2: when the record list comes out empty the run exits 0 without any
\* request to the Snapshot Store; a store request always carries a
\* non-empty record list.
C2_EmptyShortCircuit ==
    /\ (Transformed /\ rows = <<>>) =>
          /\ pc = "done" /\ exitCode = 0
          /\ \A r \in DOMAIN requests : requests[r].to # "store"
    /\ \A r \in DOMAIN requests :
          requests[r].to = "store" =>
              rows # <<>> /\ requests[r].payload = rows

C2_Witness ==
    /\ Transformed /\ Len(doc.rows) = 2
    /\ \A i \in DOMAIN doc.rows : RowStateIs(i, "Logged Out")
    /\ rows = <<>> /\ exitCode = 0 /\ Targets = <<"session", "stats">>

\* C3: a row whose State field equals "Logged Out" contributes no record,
\* whatever its other fields and the other rows are; no record in the list
\* or in a store request has state "Logged Out".
C3_LoggedOutExcluded ==
    Transformed =>
        /\ \A i \in DOMAIN doc.rows :
              RowStateIs(i, "Logged Out") => i \notin Range(src)
        /\ \A k \in DOMAIN rows : rows[k].state # "Logged Out"
        /\ \A pl \in Payloads : \A k \in DOMAIN pl : pl[k].state # "Logged Out"

C3_Witness ==
    /\ Transformed /\ Len(doc.rows) = 2
    /\ RowStateIs(1, "Logged Out") /\ Len(RowValues(1)) = 1
    /\ src = <<2>> /\ pc = "await_store"

\* C4 (as claimed): a record is emitted for a row if and only if the row's
\* State field is present and is not "Logged Out".
C4_Original ==
    Transformed =>
        \A i \in DOMAIN doc.rows :
            i \in Range(src) <=>
                (StatePresent(i) /\ ~RowStateIs(i, "Logged Out"))

\* C4 (amended): exactly one record is emitted for a row if and only if the
\* row has a value list and its State field is not "Logged Out"; a row with
\* a value list and no State field does produce a record, with state "".
C4_Amended ==
    Transformed =>
        /\ Len(src) = Len(rows)
        /\ \A k \in DOMAIN src : \A l \in DOMAIN src : k < l => src[k] < src[l]
        /\ \A i \in DOMAIN doc.rows :
              i \in Range(src) <=>
                  (HasValueList(i) /\ ~RowStateIs(i, "Logged Out"))
        /\ \A k \in DOMAIN src :
              ~StatePresent(src[k]) => rows[k].state = ""

C4_Witness ==
    /\ Transformed /\ Len(doc.rows) = 2
    /\ HasValueList(1) /\ ~StatePresent(1) /\ RowStateIs(2, "Ready")
    /\ src = <<1, 2>> /\ rows[1].state = "" /\ rows[2].state = "Ready"

\* C5 (as claimed): every run that has ended, a run ended by a transport
\* fault or an unparseable body included, has printed exactly one line, and
\* the line begins "OK: " or "FAIL: ".
C5_Original ==
    pc = "done" =>
        Len(out) = 1 /\ out[1].prefix \in {"OK: ", "FAIL: "}

\* C5 (amended): no run prints more than one line and none before it ends;
\* a run that ends without an uncaught fault has printed exactly one line
\* beginning "OK: " or "FAIL: ", and a run ended by a transport fault or an
\* unparseable response body has printed no status line.
C5_Amended ==
    /\ Len(out) <= 1
    /\ pc # "done" => out = <<>>
    /\ (pc = "done" /\ ~fault) =>
          Len(out) = 1 /\ out[1].prefix \in {"OK: ", "FAIL: "}
    /\ (pc = "done" /\ fault) => out = <<>>

C5_Witness ==
    /\ pc = "done" /\ ~fault /\ status.store = 201
    /\ Len(out) = 1 /\ out[1].prefix = "OK: " /\ out[1].n = 2

\* C6: the exit code is 0 exactly when both Five9 calls returned 200, the
\* column-definition node was found, and either no row survived or the
\* Snapshot Store answered 200 or 201; otherwise it is 1.
C6_ExitCode ==
    /\ pc # "done" => exitCode = -1
    /\ pc = "done" =>
          /\ exitCode \in {0, 1}
          /\ exitCode = 0 <=>
                /\ status.session = 200
                /\ status.stats = 200
                /\ doc.ok /\ doc.columns # Absent
                /\ rows = <<>> \/ status.store \in {200, 201}

C6_Witness ==
    /\ pc = "done" /\ exitCode = 0 /\ status.store = 201 /\ rows # <<>>

\* C7: every record has exactly the ten fixed keys; each of the nine
\* non-timestamp fields is the row value at a position of its column name in
\* the header, or "" when the header has no such position within the row's
\* value list; no field is null.
C7_RecordShape ==
    Transformed =>
        \A k \in DOMAIN rows :
            /\ DOMAIN rows[k] = Keys
            /\ \A f \in DOMAIN ColumnOf :
                  LET P == Positions(src[k], ColumnOf[f])
                  IN  /\ rows[k][f] # None
                      /\ P = {} => rows[k][f] = ""
                      /\ P # {} => \E p \in P : rows[k][f] = RowValues(src[k])[p]

C7_Witness ==
    /\ Transformed
    /\ doc.columns[1] = <<"Username", None, "State">>
    /\ doc.rows = << <<(<<"Ready", "Logged Out">>)>> >>
    /\ Len(rows) = 1
    /\ rows[1].username = "Ready" /\ rows[1].state = ""

\* C8: every record of a run carries the same snapshot_ts, the instant
\* captured at the start of the run before the first outbound call, and
\* never an instant read later.
C8_SharedTimestamp ==
    pc # "start" =>
        /\ snapshot_ts = IsoFormat(start)
        /\ requests[1].at = start
        /\ \A r \in DOMAIN requests : requests[r].at >= start
        /\ \A k \in DOMAIN rows : rows[k].snapshot_ts = snapshot_ts
        /\ \A pl \in Payloads :
              \A k \in DOMAIN pl : pl[k].snapshot_ts = snapshot_ts

C8_Witness ==
    /\ Len(rows) = 2 /\ clock > start
    /\ rows[1].snapshot_ts = IsoFormat(start)
    /\ rows[2].snapshot_ts = IsoFormat(start)
    /\ pc = "done" /\ exitCode = 0

\* C9: requests go out in the order session configuration, statistics
\* fetch, bulk insert, each at most once, and each only after every earlier
\* one came back with a success status.
C9_LinearOrder ==
    /\ IsPrefix(Targets, <<"session", "stats", "store">>)
    /\ Len(requests) >= 2 => status.session = 200
    /\ Len(requests) >= 3 => status.session = 200 /\ status.stats = 200

C9_Witness ==
    /\ Targets = <<"session", "stats", "store">>
    /\ status = [session |-> 200, stats |-> 200, store |-> 500]
    /\ pc = "done"

\* C10: a row node without a value list contributes no record and does not
\* fail the run; the record list is the one the response gives with that
\* row node removed.
C10_IncompleteRowSkipped ==
    Transformed =>
        \A i \in DOMAIN doc.rows :
            ~HasValueList(i) =>
                /\ i \notin Range(src)
                /\ ~fault \/ Targets = <<"session", "stats", "store">>
                /\ exitCode = 1 => Targets = <<"session", "stats", "store">>
                /\ rows = Transform(Header, RemoveAt(doc.rows, i),
                                    snapshot_ts, clock).rows

C10_Witness ==
    /\ Transformed /\ Len(doc.rows) = 2
    /\ ~HasValueList(1) /\ src = <<2>>
    /\ pc = "done" /\ exitCode = 0 /\ out[1].n = 1

====
